---- MODULE Spec2Model ----
(***************************************************************************)
(* Control flow of the three diagnostic scripts of the repository:         *)
(*   "testbug"  = src/test-bug.js          (original reproduction)         *)
(*   "part_000" = src/unnamed/part_000     (corrected API usage)           *)
(*   "part_001" = src/unnamed/part_001     (store-less reproduction)       *)
(* The external library (makeSchema, createStorePromise, store.subscribe,  *)
(* store.commit, store.close, JSON.stringify of the schema) is the         *)
(* environment: each call returns or throws, each promise resolves,        *)
(* rejects or stays pending.                                               *)
(***************************************************************************)
EXTENDS Integers, Sequences, FiniteSets

VARIABLES script, pc, schema, branch, timer, creation, race, keepAlive,
          calls, log, mainResult, proc

vars == <<script, pc, schema, branch, timer, creation, race, keepAlive,
          calls, log, mainResult, proc>>

\* Largest number of event definitions a schema holds in the model.
MaxEvents == 2

Scripts == {"testbug", "part_000", "part_001"}

HasMain(s) == s \in {"testbug", "part_000"}

(***************************************************************************)
(* Values: the eventsDefsMap of a schema, and thrown / rejected values.    *)
(***************************************************************************)
\* A JS value seen through the two inspections: its own enumerable string
\* keys (what Object.keys lists) and its Map entries (what .size counts).
MapValue(n) == [kind |-> "Map", own |-> {}, entries |-> 1..n]
ObjectValue(n) == [kind |-> "Object", own |-> 1..n, entries |-> {}]
NoSchema == [kind |-> "none", own |-> {}, entries |-> {}]

SchemaValues == {MapValue(n) : n \in 0..MaxEvents}
                  \cup {ObjectValue(n) : n \in 0..MaxEvents}

\* Thrown values.  kind "Error": .message is a string, kept as its sequence
\* of lines.  kind "plain": a non-nullish value without a string .message
\* (throw "boom", throw {}); reading .message gives undefined.  kind
\* "nullish": undefined or null, on which any property read throws a
\* TypeError.  ctor: whether .constructor is defined, so that
\* .constructor.name can be read (FALSE for null-prototype objects).
TimeoutError == [kind |-> "Error", msg |-> <<"Store creation timed out">>, ctor |-> TRUE]
LibError == [kind |-> "Error", msg |-> <<"library error">>, ctor |-> TRUE]
MultiLineError == [kind |-> "Error", msg |-> <<"library error", "details">>, ctor |-> TRUE]
PlainThrown == [kind |-> "plain", msg |-> <<"undefined">>, ctor |-> TRUE]
NullProtoThrown == [kind |-> "plain", msg |-> <<"undefined">>, ctor |-> FALSE]
NullProtoMsgThrown == [kind |-> "Error", msg |-> <<"library error">>, ctor |-> FALSE]
NullishThrown == [kind |-> "nullish", msg |-> <<>>, ctor |-> FALSE]
TypeErr == [kind |-> "Error", msg |-> <<"TypeError">>, ctor |-> TRUE]
NoValue == [kind |-> "none", msg |-> <<>>, ctor |-> FALSE]

Thrown == {LibError, MultiLineError, PlainThrown, NullProtoThrown,
           NullProtoMsgThrown, NullishThrown}

\* message.split("\n")[0]: the first line of a string message.
FirstLine(m) == <<m[1]>>

(***************************************************************************)
(* Schema inspection.                                                      *)
(***************************************************************************)
\* A plausible slip: listing the entries of a Map as if they were keys.
ObjectKeysWithEntries(v) == v.own \cup v.entries

\* Object.keys(schema.eventsDefsMap || {}): own enumerable string keys.
ObjectKeys(v) == v.own

\* test-bug.js / part_001: if (Object.keys(...).length === 0)
InspectObjectKeys(v) ==
  IF Cardinality(ObjectKeys(v)) = 0 THEN "BUG CONFIRMED" ELSE "working correctly"

\* part_000 line 71: Array.from(schema.eventsDefsMap.keys()) throws a
\* TypeError when the value has no keys() method.
MapInspectionThrows(v) == v.kind # "Map"

\* part_000: if (schema.eventsDefsMap.size > 0)
InspectMapSize(v) ==
  IF v.kind = "Map" /\ Cardinality(v.entries) > 0
  THEN "properly populated" ELSE "still empty"

(***************************************************************************)
(* Catch handlers: does evaluating the handler's own statements throw?     *)
(***************************************************************************)
\* console.log("SUBSCRIBE FAILED:", subscribeError.message) completes
\* unless reading .message throws.
SubscribeHandlerPrints(e) == e.kind # "nullish"

\* The handler throws at .message (nullish value) or, after the first
\* line is printed, at subscribeError.constructor.name (no constructor).
SubscribeHandlerThrows(e) == e.kind = "nullish" \/ ~e.ctor

\* console.log("COMMIT FAILED:", commitError.message.split("\n")[0])
\* completes only when .message is a string.
CommitHandlerPrints(e) == e.kind = "Error"

\* The handler throws at .message.split (no string message) or, after
\* the first line is printed, at commitError.constructor.name.
CommitHandlerThrows(e) == e.kind # "Error" \/ ~e.ctor

\* console.log("STORE CREATION FAILED:", storeError.message)
StoreErrorHandlerThrows(e) == e.kind = "nullish"

\* A race that lets a later settlement replace an earlier one.
RaceSettleLastWins(cur, new) == new

\* Promise.race: the first settlement wins, later ones are ignored.
RaceSettle(cur, new) == IF cur.state = "pending" THEN new ELSE cur

PendingRace == [state |-> "pending", val |-> NoValue, by |-> "none"]

\* process.exit(code): terminates the process with that code.
ProcessExit(code) == [exited |-> TRUE, code |-> code]

Called(name) == \E i \in 1..Len(calls) : calls[i][1] = name
CalledWith(name, outcome) == <<name, outcome>> \in {calls[i] : i \in 1..Len(calls)}
Printed(tag) == \E i \in 1..Len(log) : log[i][1] = tag
PrintedWith(tag, msg) == <<tag, msg>> \in {log[i] : i \in 1..Len(log)}

Init ==
  /\ script \in Scripts
  /\ pc = "start"
  /\ schema = NoSchema
  /\ branch = "none"
  /\ timer = "unset"
  /\ creation = "unstarted"
  /\ race = PendingRace
  /\ keepAlive = FALSE
  /\ calls = <<>>
  /\ log = <<>>
  /\ mainResult = "running"
  /\ proc = [exited |-> FALSE, code |-> 0]

\* An error leaves the body of the script: main()'s promise rejects, or,
\* in the script without main(), the uncaught exception ends the process.
Escape(lg) ==
  /\ log' = lg
  /\ IF HasMain(script)
     THEN /\ pc' = "settled"
          /\ mainResult' = "rejected"
          /\ proc' = proc
     ELSE /\ pc' = "done"
          /\ mainResult' = mainResult
          /\ proc' = ProcessExit(1)

\* catch (storeError) { console.log("STORE CREATION FAILED:", storeError.message) ... }
CatchStoreError(e, lg) ==
  IF StoreErrorHandlerThrows(e)
  THEN Escape(lg)
  ELSE /\ log' = Append(lg, <<"STORE CREATION FAILED", e.msg>>)
       /\ pc' = "tail"
       /\ UNCHANGED <<mainResult, proc>>

\* Steps 1-3: define events and state, call makeSchema().
MakeSchema ==
  /\ pc = "start" /\ ~proc.exited
  /\ \/ \E v \in SchemaValues :
          /\ schema' = v
          /\ calls' = Append(calls, <<"makeSchema", "ok">>)
          /\ log' = Append(log, <<"Schema created", <<>>>>)
          /\ pc' = "inspect"
          /\ UNCHANGED <<mainResult, proc>>
     \/ /\ calls' = Append(calls, <<"makeSchema", "threw">>)
        /\ schema' = schema
        /\ Escape(log)
  /\ UNCHANGED <<script, branch, timer, creation, race, keepAlive>>

\* Steps 4-5: inspect schema.eventsDefsMap and print the verdict.
Inspect ==
  /\ pc = "inspect" /\ ~proc.exited
  /\ IF script = "part_000"
     THEN IF MapInspectionThrows(schema)
          THEN /\ branch' = branch
               /\ Escape(log)
          ELSE /\ branch' = InspectMapSize(schema)
               /\ log' = Append(log, <<branch', <<>>>>)
               /\ pc' = "startRace"
               /\ UNCHANGED <<mainResult, proc>>
     ELSE /\ branch' = InspectObjectKeys(schema)
          /\ log' = Append(log, <<branch', <<>>>>)
          /\ pc' = IF script = "testbug" THEN "startRace" ELSE "tail"
          /\ UNCHANGED <<mainResult, proc>>
  /\ UNCHANGED <<script, schema, timer, creation, race, keepAlive, calls>>

\* Step 6: testWithTimeout() is called and the timer is armed.
StartRace ==
  /\ pc = "startRace" /\ ~proc.exited
  /\ creation' = "pending"
  /\ timer' = "pending"
  /\ race' = PendingRace
  /\ calls' = Append(calls, <<"createStore", "called">>)
  /\ pc' = "race"
  /\ UNCHANGED <<script, schema, branch, keepAlive, log, mainResult, proc>>

\* makeAdapter + createStorePromise settle (before or after the timer).
CreationSettle ==
  /\ creation = "pending" /\ ~proc.exited
  /\ \/ \E k \in BOOLEAN :
          /\ creation' = "resolved"
          /\ keepAlive' = k
          /\ race' = RaceSettle(race, [state |-> "fulfilled", val |-> NoValue, by |-> "store"])
     \/ \E e \in Thrown :
          /\ creation' = "rejected"
          /\ keepAlive' = keepAlive
          /\ race' = RaceSettle(race, [state |-> "rejected", val |-> e, by |-> "store"])
  /\ UNCHANGED <<script, pc, schema, branch, timer, calls, log, mainResult, proc>>

\* The timer fires and resolves the race instead of rejecting it.
TimerFireResolves ==
  /\ timer = "pending" /\ ~proc.exited
  /\ timer' = "fired"
  /\ race' = RaceSettle(race, [state |-> "fulfilled", val |-> NoValue, by |-> "timer"])
  /\ UNCHANGED <<script, pc, schema, branch, creation, keepAlive, calls, log, mainResult, proc>>

\* setTimeout(() => reject(new Error("Store creation timed out")), timeoutMs)
TimerFire ==
  /\ timer = "pending" /\ ~proc.exited
  /\ timer' = "fired"
  /\ race' = RaceSettle(race, [state |-> "rejected", val |-> TimeoutError, by |-> "timer"])
  /\ UNCHANGED <<script, pc, schema, branch, creation, keepAlive, calls, log, mainResult, proc>>

\* main() resumes after `await Promise.race([...])`.
AwaitRace ==
  /\ pc = "race" /\ ~proc.exited
  /\ race.state # "pending"
  /\ IF race.state = "fulfilled"
     THEN /\ log' = Append(log, <<"Store created successfully", <<>>>>)
          /\ pc' = "subscribe"
          /\ UNCHANGED <<mainResult, proc>>
     ELSE CatchStoreError(race.val, log)
  /\ UNCHANGED <<script, schema, branch, timer, creation, race, keepAlive, calls>>

\* Test 1: store.subscribe(...) inside its own try/catch.
Subscribe ==
  /\ pc = "subscribe" /\ ~proc.exited
  /\ \/ /\ calls' = Append(calls, <<"subscribe", "ok">>)
        /\ log' = Append(log, <<"Subscribe worked", <<>>>>)
        /\ pc' = "commit"
        /\ UNCHANGED <<mainResult, proc>>
     \/ \E e \in Thrown :
          /\ calls' = Append(calls, <<"subscribe", "threw">>)
          /\ LET lg == IF SubscribeHandlerPrints(e)
                       THEN Append(log, <<"SUBSCRIBE FAILED", e.msg>>)
                       ELSE log
             IN IF SubscribeHandlerThrows(e)
                THEN CatchStoreError(TypeErr, lg)
                ELSE /\ log' = lg
                     /\ pc' = "commit"
                     /\ UNCHANGED <<mainResult, proc>>
  /\ UNCHANGED <<script, schema, branch, timer, creation, race, keepAlive>>

\* A retry loop: after the commit step, go back to subscribing.
AfterCommitRetry(s) == "subscribe"

\* The step that follows Test 2: store.close() in test-bug.js, the
\* completion narration (end of the try block) in part_000.
AfterCommit(s) == IF s = "testbug" THEN "close" ELSE "tail"

\* What is printed between Test 2 and the next step.
AfterCommitLog(s, lg) ==
  IF s = "testbug" THEN lg
  ELSE Append(lg, <<"Store operations completed successfully", <<>>>>)

\* Test 2: store.commit(...) inside its own try/catch.
Commit ==
  /\ pc = "commit" /\ ~proc.exited
  /\ \/ /\ calls' = Append(calls, <<"commit", "ok">>)
        /\ log' = AfterCommitLog(script, Append(log, <<"Commit worked", <<>>>>))
        /\ pc' = AfterCommit(script)
        /\ UNCHANGED <<mainResult, proc>>
     \/ \E e \in Thrown :
          /\ calls' = Append(calls, <<"commit", "threw">>)
          /\ LET lg == IF CommitHandlerPrints(e)
                       THEN Append(log, <<"COMMIT FAILED", FirstLine(e.msg)>>)
                       ELSE log
             IN IF CommitHandlerThrows(e)
                THEN CatchStoreError(TypeErr, lg)
                ELSE /\ log' = AfterCommitLog(script, lg)
                     /\ pc' = AfterCommit(script)
                     /\ UNCHANGED <<mainResult, proc>>
  /\ UNCHANGED <<script, schema, branch, timer, creation, race, keepAlive>>

\* test-bug.js: store.close() is called and awaited.
Close ==
  /\ pc = "close" /\ ~proc.exited
  /\ calls' = Append(calls, <<"close", "called">>)
  /\ log' = Append(log, <<"Closing store", <<>>>>)
  /\ pc' = "awaitClose"
  /\ UNCHANGED <<script, schema, branch, timer, creation, race, keepAlive, mainResult, proc>>

\* The promise of store.close() settles and main() resumes.
CloseSettle ==
  /\ pc = "awaitClose" /\ ~proc.exited
  /\ \/ /\ calls' = [calls EXCEPT ![Len(calls)] = <<"close", "resolved">>]
        /\ log' = Append(log, <<"Store closed", <<>>>>)
        /\ pc' = "tail"
        /\ UNCHANGED <<mainResult, proc>>
     \/ \E e \in Thrown :
          /\ calls' = [calls EXCEPT ![Len(calls)] = <<"close", "rejected">>]
          /\ CatchStoreError(e, log)
  /\ UNCHANGED <<script, schema, branch, timer, creation, race, keepAlive>>

\* The closing narration; test-bug.js and part_001 print
\* JSON.stringify(schema, null, 2), which throws on a value it cannot
\* serialise.  part_001 ends there, without a completion line.
Epilogue ==
  /\ pc = "tail" /\ ~proc.exited
  /\ \/ /\ calls' = IF script = "part_000" THEN calls
                    ELSE Append(calls, <<"stringify", "ok">>)
        /\ IF HasMain(script)
           THEN /\ log' = Append(log, <<"Test completed", <<>>>>)
                /\ pc' = "settled"
                /\ mainResult' = "fulfilled"
           ELSE /\ log' = log
                /\ pc' = "done"
                /\ mainResult' = mainResult
        /\ proc' = proc
     \/ /\ script # "part_000"
        /\ calls' = Append(calls, <<"stringify", "threw">>)
        /\ Escape(log)
  /\ UNCHANGED <<script, schema, branch, timer, creation, race, keepAlive>>

\* A handler that records the failure in process.exitCode and returns.
TopLevelCatchSetsExitCode ==
  /\ pc = "settled" /\ ~proc.exited
  /\ IF mainResult = "rejected"
     THEN /\ log' = Append(log, <<"Unhandled error", <<>>>>)
          /\ proc' = [proc EXCEPT !.code = 1]
     ELSE UNCHANGED <<log, proc>>
  /\ pc' = "finally"
  /\ UNCHANGED <<script, schema, branch, timer, creation, race, keepAlive, calls, mainResult>>

\* main().catch((error) => { console.error(...); process.exit(1); });
\* a fulfilled main() passes through to .finally().
TopLevelCatch ==
  /\ pc = "settled" /\ ~proc.exited
  /\ IF mainResult = "rejected"
     THEN /\ log' = Append(log, <<"Unhandled error", <<>>>>)
          /\ proc' = ProcessExit(1)
          /\ pc' = pc
     ELSE /\ pc' = "finally"
          /\ UNCHANGED <<log, proc>>
  /\ UNCHANGED <<script, schema, branch, timer, creation, race, keepAlive, calls, mainResult>>

\* .finally(() => { process.exit(0); })
TopLevelFinally ==
  /\ pc = "finally" /\ ~proc.exited
  /\ proc' = ProcessExit(0)
  /\ UNCHANGED <<script, pc, schema, branch, timer, creation, race, keepAlive, calls, log, mainResult>>

\* Nothing keeps the event loop alive: the store-less script has run to
\* its end, or main() waits on store.close() with no timer and no library
\* handle left.  The process ends with code 0.
NaturalExit ==
  /\ ~proc.exited
  /\ timer # "pending"
  /\ \/ script = "part_001" /\ pc = "done"
     \/ pc = "awaitClose" /\ ~keepAlive
  /\ proc' = ProcessExit(0)
  /\ UNCHANGED <<script, pc, schema, branch, timer, creation, race, keepAlive, calls, log, mainResult>>

Next ==
  \/ MakeSchema
  \/ Inspect
  \/ StartRace
  \/ CreationSettle
  \/ TimerFire
  \/ AwaitRace
  \/ Subscribe
  \/ Commit
  \/ Close
  \/ CloseSettle
  \/ Epilogue
  \/ TopLevelCatch
  \/ TopLevelFinally
  \/ NaturalExit

Spec == Init /\ [][Next]_vars

\* The script's own steps, the timer and the runtime always make progress;
\* the library's promises (store creation, store.close) may stay pending.
FairSpec ==
  /\ Spec
  /\ WF_vars(MakeSchema) /\ WF_vars(Inspect) /\ WF_vars(StartRace)
  /\ WF_vars(TimerFire) /\ WF_vars(AwaitRace) /\ WF_vars(Subscribe)
  /\ WF_vars(Commit) /\ WF_vars(Close) /\ WF_vars(Epilogue)
  /\ WF_vars(TopLevelCatch) /\ WF_vars(TopLevelFinally) /\ WF_vars(NaturalExit)

TypeOK ==
  /\ script \in Scripts
  /\ schema \in SchemaValues \cup {NoSchema}
  /\ timer \in {"unset", "pending", "fired"}
  /\ creation \in {"unstarted", "pending", "resolved", "rejected"}
  /\ race.state \in {"pending", "fulfilled", "rejected"}
  /\ mainResult \in {"running", "fulfilled", "rejected"}
  /\ proc.code \in {0, 1}

(***************************************************************************)
(* Properties.                                                             *)
(***************************************************************************)
CountCalls(name) == Cardinality({i \in 1..Len(calls) : calls[i][1] = name})

StepRank(name) ==
  CASE name = "makeSchema" -> 1
    [] name = "createStore" -> 2
    [] name = "subscribe" -> 3
    [] name = "commit" -> 4
    [] name = "close" -> 5
    [] OTHER -> 6

StoreFailure ==
  \/ race.state = "rejected"
  \/ CalledWith("subscribe", "threw")
  \/ CalledWith("commit", "threw")

\* C1: in the scripts with main(), the process exit code is 1 exactly when
\* main()'s promise rejected and 0 when it fulfilled; the exit(0) of the
\* finally handler never replaces the 1 of the top-level catch.
C1_ExitCode ==
  (HasMain(script) /\ proc.exited) =>
     /\ (proc.code = 1) <=> (mainResult = "rejected")
     /\ (mainResult = "fulfilled") => (proc.code = 0)

C1_Witness ==
  HasMain(script) /\ proc.exited /\ mainResult = "rejected" /\ proc.code = 1

\* C2: when the timer fires before store creation settles, the race rejects
\* with "Store creation timed out", the store-creation-failed branch reports
\* it, and subscribe, commit and close are never invoked.
C2_Timeout ==
  (race.by = "timer") =>
     /\ race.state = "rejected"
     /\ race.val = TimeoutError
     /\ ~Called("subscribe") /\ ~Called("commit") /\ ~Called("close")
     /\ ~Printed("Store created successfully")
     /\ (pc # "race") =>
           PrintedWith("STORE CREATION FAILED", TimeoutError.msg)

C2_Witness ==
  race.by = "timer" /\ pc = "tail" /\ Printed("STORE CREATION FAILED")

\* C3: the first settlement of the race alone fixes its outcome; the later
\* settlement of the loser changes neither the narration, the position of
\* the script nor the exit code; the timer is never cleared and a store
\* created after the timeout is never used or closed.
C3_FirstSettlementWins ==
  [][ /\ (race.state # "pending") => (race' = race)
      /\ (timer = "pending") => (timer' \in {"pending", "fired"})
      /\ (race.state # "pending" /\ (timer' # timer \/ creation' # creation))
            => UNCHANGED <<pc, log, calls, proc, mainResult>>
      /\ (race.by = "timer") =>
            (~Called("subscribe") /\ ~Called("commit") /\ ~Called("close"))'
    ]_vars

C3_Witness ==
  \/ race.by = "timer" /\ creation = "resolved" /\ proc.exited
  \/ race.by = "store" /\ timer = "fired" /\ pc = "awaitClose"

\* C4: an error thrown by store.subscribe is caught locally and commit is
\* still attempted; an error thrown by store.commit is caught locally and
\* the following step is reached; neither error reaches the
\* store-creation catch or the top-level catch.
C4_CaughtLocally ==
  /\ CalledWith("subscribe", "threw") => (pc = "commit" \/ Called("commit"))
  /\ CalledWith("commit", "threw") =>
        IF script = "testbug"
        THEN pc = "close" \/ Called("close")
        ELSE Printed("Store operations completed successfully")
  /\ ((CalledWith("subscribe", "threw") \/ CalledWith("commit", "threw"))
        /\ ~CalledWith("close", "rejected")) =>
        /\ ~Printed("STORE CREATION FAILED")
        /\ (mainResult = "rejected") => CalledWith("stringify", "threw")

\* C5: the script never hangs: every execution eventually exits.
C5_AlwaysExits == <>(proc.exited)

\* C6: a failure of store creation, subscribe or commit is only narrated:
\* the failed step is not retried and a run whose only failures are these
\* ends with exit code 0.
C6_FailuresOnlyNarrated ==
  /\ CountCalls("createStore") <= 1
  /\ CountCalls("subscribe") <= 1
  /\ CountCalls("commit") <= 1
  /\ (/\ proc.exited
      /\ StoreFailure
      /\ ~CalledWith("close", "rejected")
      /\ ~CalledWith("stringify", "threw")) => (proc.code = 0)

\* C7: on a Map the Object.keys inspection always counts 0 keys and takes
\* the BUG CONFIRMED branch, the corrected inspection takes the properly
\* populated branch exactly when the Map's size is positive, and the two
\* inspections disagree exactly on non-empty Maps.
C7_Inspection ==
  (schema.kind = "Map") =>
     /\ Cardinality(ObjectKeys(schema)) = 0
     /\ InspectObjectKeys(schema) = "BUG CONFIRMED"
     /\ (InspectMapSize(schema) = "properly populated")
           <=> (Cardinality(schema.entries) > 0)
     /\ ((InspectObjectKeys(schema) = "BUG CONFIRMED")
            # (InspectMapSize(schema) = "still empty"))
           <=> (Cardinality(schema.entries) > 0)
     /\ (branch # "none" /\ script # "part_000") => (branch = "BUG CONFIRMED")
     /\ (branch # "none" /\ script = "part_000") =>
           ((branch = "properly populated") <=> (Cardinality(schema.entries) > 0))

C7_Witness ==
  /\ schema.kind = "Map"
  /\ Cardinality(schema.entries) > 0
  /\ branch = "BUG CONFIRMED"

\* C8: the steps run in one fixed order, each at most once: makeSchema
\* before store creation, and subscribe, commit, close only after store
\* creation won the race, in that order; no step runs again after a later
\* one.
C8_FixedOrder ==
  /\ \A i, j \in 1..Len(calls) :
        (i < j) => (StepRank(calls[i][1]) < StepRank(calls[j][1]))
  /\ Called("createStore") => CalledWith("makeSchema", "ok")
  /\ (Called("subscribe") \/ Called("commit") \/ Called("close")) =>
        (race.state = "fulfilled" /\ race.by = "store")
  /\ (script # "testbug") => ~Called("close")

C8_Witness ==
  /\ script = "testbug"
  /\ Called("subscribe") /\ Called("commit") /\ CalledWith("close", "resolved")
  /\ proc.exited

\* C9: in test-bug.js STORE CREATION FAILED is printed only in runs where
\* store creation rejected or timed out, never after Store created
\* successfully.
C9_FailedOnlyWhenCreationFailed ==
  (script = "testbug" /\ Printed("STORE CREATION FAILED")) =>
     (race.state = "rejected" /\ ~Printed("Store created successfully"))

\* C10: in test-bug.js every run in which store creation won the race
\* invokes store.close() exactly once before the process exits; part_000
\* never invokes store.close().
C10_CloseExactlyOnce ==
  /\ (script = "testbug" /\ proc.exited /\ race.state = "fulfilled") =>
        (CountCalls("close") = 1)
  /\ (script = "part_000") => ~Called("close")
====
